---- MODULE Spec2Model ----
(***************************************************************************)
(* Model of the awareness bot (src/awarenessbot.py): the keyword/warning   *)
(* escalation of Awareness.event_handler, Awareness.mute and the report    *)
(* workflow of Awareness.report, as asyncio tasks that interleave at every *)
(* await.                                                                  *)
(*                                                                         *)
(* A Python string is a sequence of symbols: a letter, a user or room id,  *)
(* or a placeholder such as "[user]" is one symbol.                        *)
(***************************************************************************)
EXTENDS Integers, Sequences, FiniteSets, TLC

\* ------------------------------------------------------------------ bounds
\* distinct messages, commands and reactions posted in one run
MaxEvents == 2
\* times the first message is sent again (serial runs only)
MaxRepeats == 5
\* handler invocations that may be in flight at once
NumTasks == 2
\* calls to the homeserver that may fail in one run
MaxFaults == 1

Procs == 1..NumTasks

\* ------------------------------------------------------------ identities
None == "None"
mxid == "@bot"
room_id == "!room"
Senders == {"@bob", "@Bob", "@carol", mxid}
ROOM_MESSAGE == "m.room.message"
REACTION == "m.reaction"
TEXT == "m.text"
EMOTE == "m.emote"
NOTICE == "m.notice"
ReportEmoji == "rotating_light"
ReportCommand == "!report"

\* allowed_msgtypes (line 38)
allowed_msgtypes == {TEXT, EMOTE}

\* ---------------------------------------------------------------- strings
\* str.lower(), and SQL LOWER(), on one symbol
LowerSym(c) ==
  CASE c = "S" -> "s"
    [] c = "P" -> "p"
    [] c = "A" -> "a"
    [] c = "M" -> "m"
    [] c = "@Bob" -> "@bob"
    [] OTHER -> c

Lower(s) == [i \in 1..Len(s) |-> LowerSym(s[i])]

\* Python's `sub in s`
Contains(sub, s) ==
  \E i \in 0..(Len(s) - Len(sub)) : SubSeq(s, i + 1, i + Len(sub)) = sub

\* str.replace(old, new) where old is one symbol
RECURSIVE Replace(_, _, _)
Replace(s, old, new) ==
  IF s = << >> THEN << >>
  ELSE (IF Head(s) = old THEN new ELSE <<Head(s)>>) \o Replace(Tail(s), old, new)

\* str(warnings)
Str(n) == <<ToString(n)>>

\* the f-string of lines 56 and 60
Link(user) == <<"<a href='https://matrix.to/#/", user, "'>", user, "</a>">>

NoContent == [body |-> << >>, formatted_body |-> << >>]

\* prettify_usernames (lines 54-64)
prettify_usernames(content, user, event_id, reporter) ==
  LET c == IF reporter # None
           THEN Replace(content, "[reporter]", Link(reporter))
           ELSE content
  IN [body |-> c, formatted_body |-> Replace(c, "[user]", Link(user))]

\* ----------------------------------------------------------------- config
kw_sp == <<"s", "p">>
kw_AM == <<"A", "M">>
kw_pa == <<"p", "a">>
\* the configurations a run starts from (lines 18-19): the keywords and the
\* notification room, which is unset, empty or a room
Configs ==
  { [keywords |-> <<kw_sp, kw_AM, kw_pa>>, notification_room |-> "!mods"],
    [keywords |-> <<kw_sp, kw_AM, kw_pa>>, notification_room |-> ""],
    [keywords |-> << >>, notification_room |-> None] }

message_warning == <<"[user]", "warning", "[count]", "for", "[keyword]">>
message_mute == <<"[user]", "muted", "after", "[count]", "for", "[keyword]">>
message_report == <<"[user]", "was", "reported", "by", "[reporter]">>
message_notify == <<"[reporter]", "reported", "[user]", "in", "[room]">>
FailedToUpdate == <<"Failed to update power levels (see logs for more details)">>

\* mutant: only None counts as unset
Truthy_notNone(x) == x # None

\* truthiness of config["notification_room"] (line 132)
Truthy(x) == x # None /\ x # ""

\* ----------------------------------------------------------------- events
body_sp == <<"s", "p">>
body_SPam == <<"S", "P", "a", "m">>
body_ma == <<"m", "a">>
body_report == <<ReportCommand>>

Msg(sender, msgtype, body, reply_to) ==
  [type |-> ROOM_MESSAGE, sender |-> sender, msgtype |-> msgtype,
   body |-> body, reply_to |-> reply_to, key |-> None]

React(sender, key, target) ==
  [type |-> REACTION, sender |-> sender, msgtype |-> None,
   body |-> << >>, reply_to |-> target, key |-> key]

\* what a new message may be, given that n events exist already
Shapes(n) ==
  { Msg("@bob", TEXT, body_sp, 0),
    Msg("@Bob", TEXT, body_sp, 0),
    Msg("@bob", EMOTE, body_SPam, 0),
    Msg("@carol", EMOTE, body_SPam, 0),
    Msg("@carol", TEXT, body_ma, 0),
    Msg(mxid, TEXT, body_sp, 0),
    Msg("@bob", NOTICE, body_sp, 0) }
  \cup { Msg("@carol", TEXT, body_report, t) : t \in 0..n }
  \cup { React("@carol", ReportEmoji, t) : t \in 1..n }

\* the handlers the framework runs for an event: event_handler is registered
\* for room messages (line 87), report for the command "report" (line 115)
Handlers(evt) ==
  (IF evt.type = ROOM_MESSAGE THEN {"event_handler"} ELSE {})
  \cup (IF evt.type = ROOM_MESSAGE /\ evt.body # << >> /\ Head(evt.body) = ReportCommand
        THEN {"report"} ELSE {})

\* ------------------------------------------------------------------ state
VARIABLES
  config,     \* self.config: keywords and notification_room
  events,     \* the room's timeline; an event's id is its index
  repeats,    \* how often the last message was repeated
  task,       \* the handler invocations in flight, with their locals
  store,      \* the table data: user -> warnings
  power,      \* the room's m.room.power_levels users map
  calls,      \* per event, the calls its handlers made, in order
  outcome,    \* per event and handler: none, pending, running, returned, raised
  failures,   \* per event, the calls that failed while it was handled
  faults,     \* number of failed calls so far
  matchLog    \* per sender, its keyword matches in order

vars == <<config, events, repeats, task, store, power, calls, outcome,
          failures, faults, matchLog>>

IdleTask ==
  [pc |-> "idle", evt |-> 0, handler |-> None, i |-> 0, warnings |-> 0,
   content |-> NoContent, levels |-> << >>, reply_to |-> 0,
   reported_msg |-> 0, mute_evt |-> 0]

Init ==
  /\ config \in Configs
  /\ events = << >>
  /\ repeats = 0
  /\ task = [p \in Procs |-> IdleTask]
  /\ store = << >>
  /\ power = [u \in {mxid} |-> 100]
  /\ calls = << >>
  /\ outcome = << >>
  /\ failures = << >>
  /\ faults = 0
  /\ matchLog = [u \in Senders |-> << >>]

\* ------------------------------------------------------------ environment
Arrive(evt) ==
  /\ events' = Append(events, evt)
  /\ calls' = Append(calls, << >>)
  /\ failures' = Append(failures, {})
  /\ outcome' = Append(outcome,
       [h \in {"event_handler", "report"} |->
          IF h \in Handlers(evt) THEN "pending" ELSE "none"])
  /\ UNCHANGED <<config, task, store, power, faults, matchLog>>

\* somebody posts a message, a command or a reaction
Post ==
  /\ Len(events) < MaxEvents
  /\ repeats = 0
  /\ \E evt \in Shapes(Len(events)) : Arrive(evt)
  /\ UNCHANGED repeats

\* the sender of the first message sends it again, and nothing else is posted
Repeat ==
  /\ events # << >>
  /\ \A i \in 1..Len(events) : events[i] = events[1]
  /\ repeats < MaxRepeats
  /\ Arrive(events[1])
  /\ repeats' = repeats + 1

\* ---------------------------------------------------------------- helpers
Call(h, op, user, n, to, room, content) ==
  [h |-> h, op |-> op, user |-> user, n |-> n, to |-> to, room |-> room,
   content |-> content]

Logged(e, recs) == [calls EXCEPT ![e] = @ \o recs]

Failed(e, kind) ==
  /\ faults < MaxFaults
  /\ faults' = faults + 1
  /\ failures' = [failures EXCEPT ![e] = @ \cup {kind}]

NoFault == UNCHANGED <<faults, failures>>

\* the handler of task p ends: it returns, or an exception leaves it
Finish(p, how) ==
  /\ task' = [task EXCEPT ![p] = IdleTask]
  /\ outcome' = [outcome EXCEPT ![task[p].evt][task[p].handler] = how]

\* the free task slot a new invocation takes
FreeSlot(p) ==
  /\ task[p].pc = "idle"
  /\ \A q \in Procs : task[q].pc = "idle" => p <= q

\* ------------------------------------------------------------ the store
\* the rows SELECT ... WHERE LOWER(user)=LOWER($1) matches (line 46)
Rows(sender) == {u \in DOMAIN store : LowerSym(u) = LowerSym(sender)}

\* get_warning_count (lines 45-52): fetchval gives the first matching row in
\* an order SQL leaves open, None without a row; a falsy value reads as 0
get_warning_count(sender) ==
  IF Rows(sender) = {} THEN {0} ELSE {store[u] : u \in Rows(sender)}

\* mutant: the write adds one to the stored row instead of overwriting it
set_warning_count_atomic(sender, warnings) ==
  [u \in DOMAIN store \cup {sender} |->
     IF u = sender
     THEN (IF u \in DOMAIN store THEN (store[u] % 3) + 1 ELSE 1)
     ELSE store[u]]

\* set_warning_count (lines 66-72): an upsert on the primary key user
set_warning_count(sender, warnings) ==
  [u \in DOMAIN store \cup {sender} |-> IF u = sender THEN warnings ELSE store[u]]

\* ------------------------------------------------------- event_handler
\* mutant: a keyword counts as found when the body shares a character with it
KeywordFound_anychar(keyword, body) ==
  \E i \in 1..Len(keyword) : \E j \in 1..Len(body) :
    LowerSym(keyword[i]) = LowerSym(body[j])

\* keyword.lower() in evt.content.body.lower() (line 98)
KeywordFound(keyword, body) == Contains(Lower(keyword), Lower(body))

\* mutant: the loop ends after the first keyword the body contains
NextMatch_first(body, from) ==
  LET found == {j \in 1..Len(config.keywords) :
                  KeywordFound(config.keywords[j], body)}
  IN IF from > 1 \/ found = {} THEN 0
     ELSE CHOOSE j \in found : \A k \in found : j <= k

\* the for loop of lines 97-98 and 112-113: the next keyword from index
\* `from` on that the body contains, 0 when the loop ends
NextMatch(body, from) ==
  LET found == {j \in from..Len(config.keywords) :
                  KeywordFound(config.keywords[j], body)}
  IN IF found = {} THEN 0
     ELSE CHOOSE j \in found : \A k \in found : j <= k

\* mutant: only the bot's own messages are ignored
Ignored_botOnly(evt) == evt.sender = mxid

\* line 89
Ignored(evt) == evt.sender = mxid \/ evt.msgtype \notin allowed_msgtypes

\* mutant: the modulo is left out
Effective_raw(warnings) == warnings

\* mutant: the wrong modulus
Effective_mod2(warnings) == warnings % 2

\* warnings = warnings % 3 (line 101)
Effective(warnings) == warnings % 3

\* mutant: the threshold is off by one
MuteDue_early(warnings) == warnings > 0

\* if warnings > 1 (line 102)
MuteDue(warnings) == warnings > 1

\* mutant: the count goes up by two
Incremented_by2(warnings) == warnings + 2

\* warnings += 1 (line 107)
Incremented(warnings) == warnings + 1

\* mutant: the reply shows the count before the increment
MatchContent_stale(template, keyword, warnings, evt, event_id) ==
  prettify_usernames(
    Replace(Replace(template, "[keyword]", keyword), "[count]", Str(warnings - 1)),
    evt.sender, event_id, None)

\* line 108
MatchContent(template, keyword, warnings, evt, event_id) ==
  prettify_usernames(
    Replace(Replace(template, "[keyword]", keyword), "[count]", Str(warnings)),
    evt.sender, event_id, None)

\* lines 89-99: the event is dispatched to event_handler, which runs up to
\* its first await. Line 95 only creates the coroutine of report and never
\* awaits it, so it has no effect.
EventHandlerStart(p, e) ==
  /\ FreeSlot(p)
  /\ outcome[e]["event_handler"] = "pending"
  /\ LET evt == events[e]
         j == NextMatch(evt.body, 1)
     IN IF Ignored(evt) \/ j = 0
        THEN /\ outcome' = [outcome EXCEPT ![e]["event_handler"] = "returned"]
             /\ UNCHANGED task
        ELSE /\ outcome' = [outcome EXCEPT ![e]["event_handler"] = "running"]
             /\ task' = [task EXCEPT ![p] =
                  [IdleTask EXCEPT !.pc = "get_warning_count", !.evt = e,
                                   !.handler = "event_handler", !.i = j]]
  /\ UNCHANGED <<config, events, repeats, store, power, calls, failures,
                 faults, matchLog>>

\* lines 100-108: the count arrives; either mute is called, and runs up to
\* its first await (line 78), or the warning is rendered and line 109 awaits
GetWarningCount(p) ==
  /\ task[p].pc = "get_warning_count"
  /\ LET e == task[p].evt
         evt == events[e]
         keyword == config.keywords[task[p].i]
     IN \E read \in get_warning_count(evt.sender) :
          LET warnings == Effective(read)
              got == Call("event_handler", "get_warning_count", evt.sender, read,
                          0, None, NoContent)
          IN IF MuteDue(warnings)
             THEN /\ task' = [task EXCEPT ![p].pc = "get_state_event",
                                          ![p].warnings = warnings,
                                          ![p].mute_evt = e]
                  /\ calls' = Logged(e, <<got,
                       Call("event_handler", "mute", evt.sender, 0, e, None,
                            NoContent)>>)
                  /\ matchLog' = [matchLog EXCEPT ![evt.sender] =
                       Append(@, [evt |-> e, mute |-> TRUE])]
             ELSE /\ task' = [task EXCEPT ![p].pc = "set_warning_count",
                       ![p].warnings = Incremented(warnings),
                       ![p].content = MatchContent(message_warning, keyword,
                                        Incremented(warnings), evt, e)]
                  /\ calls' = Logged(e, <<got>>)
                  /\ matchLog' = [matchLog EXCEPT ![evt.sender] =
                       Append(@, [evt |-> e, mute |-> FALSE])]
  /\ UNCHANGED <<config, events, repeats, store, power, outcome, failures,
                 faults>>

\* line 109, then line 111 awaits
SetWarningCount(p) ==
  /\ task[p].pc = "set_warning_count"
  /\ LET e == task[p].evt
         sender == events[e].sender
     IN /\ store' = set_warning_count(sender, task[p].warnings)
        /\ calls' = Logged(e, <<Call("event_handler", "set_warning_count",
                                     sender, task[p].warnings, 0, None,
                                     NoContent)>>)
  /\ task' = [task EXCEPT ![p].pc = "reply"]
  /\ UNCHANGED <<config, events, repeats, power, outcome, failures, faults,
                 matchLog>>

\* line 111, then the loop goes on to the next keyword the body contains
Reply(p) ==
  /\ task[p].pc = "reply"
  /\ LET e == task[p].evt
         j == NextMatch(events[e].body, task[p].i + 1)
     IN \/ /\ NoFault
           /\ calls' = Logged(e, <<Call("event_handler", "reply", None, 0, e,
                                        room_id, task[p].content)>>)
           /\ IF j = 0
              THEN Finish(p, "returned")
              ELSE /\ task' = [task EXCEPT ![p] =
                        [IdleTask EXCEPT !.pc = "get_warning_count", !.evt = e,
                                         !.handler = "event_handler", !.i = j]]
                   /\ UNCHANGED outcome
        \/ /\ Failed(e, "reply")
           /\ Finish(p, "raised")
           /\ UNCHANGED calls
  /\ UNCHANGED <<config, events, repeats, store, power, matchLog>>

\* ------------------------------------------------------------------ mute
\* level = -1 (line 76)
level == -1

\* user_id = evt.sender (line 75)
MuteUser(evt) == evt.sender

\* levels.users[user_id] = level (line 79)
WithLevel(levels, user_id) ==
  [u \in DOMAIN levels \cup {user_id} |-> IF u = user_id THEN level ELSE levels[u]]

\* mutant: the update changes the one entry of the room's current map
SentLevels_patch(current, levels, user_id) == WithLevel(current, user_id)

\* the content line 80 sends: the map read at line 78 with the entry of line
\* 79, whatever the room's map has become since
SentLevels(current, levels, user_id) == levels

\* the errors of the power-levels update that lines 81 and 83 catch
StateEventErrors == {"MForbidden", "MatrixRequestError"}

\* mutant: report skips its reply and goes on to the notification room
AfterMute_noReply(t) ==
  IF t.handler = "event_handler"
  THEN [t EXCEPT !.pc = "set_warning_count",
                 !.warnings = t.warnings + 1,
                 !.content = prettify_usernames(
                     Replace(Replace(message_mute, "[keyword]", config.keywords[t.i]),
                             "[count]", Str(t.warnings + 1)),
                     events[t.evt].sender, t.evt, None)]
  ELSE [t EXCEPT !.pc = "send_message",
                 !.content = prettify_usernames(
                     Replace(message_notify, "[room]", <<room_id>>),
                     events[t.reported_msg].sender, t.reply_to,
                     events[t.evt].sender)]

\* mute returns to the handler that awaits it: event_handler goes on with
\* lines 107-109, report with lines 126-129
AfterMute(t) ==
  IF t.handler = "event_handler"
  THEN [t EXCEPT !.pc = "set_warning_count",
                 !.warnings = Incremented(t.warnings),
                 !.content = MatchContent(message_mute, config.keywords[t.i],
                               Incremented(t.warnings), events[t.evt], t.evt)]
  ELSE [t EXCEPT !.pc = "report_reply",
                 !.content = prettify_usernames(message_report,
                               events[t.reported_msg].sender, t.reply_to,
                               events[t.evt].sender)]

\* mutant: every failed update is answered with the failure reply
MuteFailed_continue(p, kind) ==
  /\ Failed(task[p].evt, kind)
  /\ task' = [task EXCEPT ![p].pc = "mute_reply"]
  /\ UNCHANGED outcome

\* mutant: every failed update leaves mute with the exception
MuteFailed_raise(p, kind) ==
  /\ Failed(task[p].evt, kind)
  /\ Finish(p, "raised")

\* what a failed power-levels update leads to (lines 81-85). For MForbidden,
\* line 82 awaits the None that log.exception returns: a TypeError leaves mute
\* and the handler awaiting it. For the other request errors line 85 replies.
MuteFailed(p, kind) ==
  /\ Failed(task[p].evt, kind)
  /\ \/ /\ kind = "MForbidden"
        /\ Finish(p, "raised")
     \/ /\ kind = "MatrixRequestError"
        /\ task' = [task EXCEPT ![p].pc = "mute_reply"]
        /\ UNCHANGED outcome

\* line 78 returns, then line 79, then line 80 awaits (the read of the room
\* state is taken to succeed: failures are injected at the update)
GetStateEvent(p) ==
  /\ task[p].pc = "get_state_event"
  /\ task' = [task EXCEPT ![p].pc = "send_state_event",
       ![p].levels = WithLevel(power, MuteUser(events[task[p].mute_evt]))]
  /\ UNCHANGED <<config, events, repeats, store, power, calls, outcome,
                 failures, faults, matchLog>>

\* line 80: the whole map is written back
SendStateEvent(p) ==
  /\ task[p].pc = "send_state_event"
  /\ \/ /\ NoFault
        /\ power' = SentLevels(power, task[p].levels,
                                MuteUser(events[task[p].mute_evt]))
        /\ calls' = Logged(task[p].evt,
             <<Call(task[p].handler, "send_state_event",
                    MuteUser(events[task[p].mute_evt]), level, 0, room_id,
                    NoContent)>>)
        /\ task' = [task EXCEPT ![p] = AfterMute(task[p])]
        /\ UNCHANGED outcome
     \/ /\ \E err \in StateEventErrors : MuteFailed(p, err)
        /\ UNCHANGED <<power, calls>>
  /\ UNCHANGED <<config, events, repeats, store, matchLog>>

\* line 85: the reply goes to the event mute was called with
MuteReply(p) ==
  /\ task[p].pc = "mute_reply"
  /\ \/ /\ NoFault
        /\ calls' = Logged(task[p].evt,
             <<Call(task[p].handler, "reply", None, 0, task[p].mute_evt, room_id,
                    [body |-> FailedToUpdate, formatted_body |-> << >>])>>)
        /\ task' = [task EXCEPT ![p] = AfterMute(task[p])]
        /\ UNCHANGED outcome
     \/ /\ Failed(task[p].evt, "mute_reply")
        /\ Finish(p, "raised")
        /\ UNCHANGED calls
  /\ UNCHANGED <<config, events, repeats, store, power, matchLog>>

\* ---------------------------------------------------------------- report
\* mutant: report mutes the sender of the command
ReportMuteArg_evt(evt_id, reported_id) == evt_id

\* the event report passes to mute (line 123)
ReportMuteArg(evt_id, reported_id) == reported_id

\* mutant: the command is taken to reply to a message in any case
HasReplyTo_always(reply_to) == TRUE

\* reply_to is not None (line 118); 0 stands for None
HasReplyTo(reply_to) == reply_to # 0

\* lines 117-120: get_reply_to(), then line 120 awaits
ReportStart(p, e) ==
  /\ FreeSlot(p)
  /\ outcome[e]["report"] = "pending"
  /\ LET reply_to == events[e].reply_to
     IN IF ~HasReplyTo(reply_to)
        THEN /\ outcome' = [outcome EXCEPT ![e]["report"] = "returned"]
             /\ UNCHANGED task
        ELSE /\ outcome' = [outcome EXCEPT ![e]["report"] = "running"]
             /\ task' = [task EXCEPT ![p] =
                  [IdleTask EXCEPT !.pc = "get_event", !.evt = e,
                                   !.handler = "report", !.reply_to = reply_to]]
  /\ UNCHANGED <<config, events, repeats, store, power, calls, failures,
                 faults, matchLog>>

\* line 120 returns, then line 123 calls mute, which awaits line 78
GetEvent(p) ==
  /\ task[p].pc = "get_event"
  /\ LET e == task[p].evt
         arg == ReportMuteArg(e, task[p].reply_to)
     IN \/ /\ NoFault
           /\ task' = [task EXCEPT ![p].pc = "get_state_event",
                                   ![p].reported_msg = task[p].reply_to,
                                   ![p].mute_evt = arg]
           /\ calls' = Logged(e,
                <<Call("report", "get_event", None, 0, task[p].reply_to, room_id,
                       NoContent),
                  Call("report", "mute", MuteUser(events[arg]), 0, arg, None,
                       NoContent)>>)
           /\ UNCHANGED outcome
        \/ /\ Failed(e, "get_event")
           /\ Finish(p, "raised")
           /\ UNCHANGED calls
  /\ UNCHANGED <<config, events, repeats, store, power, matchLog>>

\* lines 133-134
NotifyContent(t) ==
  prettify_usernames(Replace(message_notify, "[room]", <<room_id>>),
                     events[t.reported_msg].sender, t.reply_to,
                     events[t.evt].sender)

\* lines 137-142
QuoteContent(quote_body) ==
  [body |-> <<"> ">> \o quote_body,
   formatted_body |-> <<"<blockquote>\n<p>">> \o quote_body
                        \o <<"</p>\n</blockquote>\n">>]

\* line 129 returns, then lines 132-135
ReportReply(p) ==
  /\ task[p].pc = "report_reply"
  /\ LET e == task[p].evt
     IN \/ /\ NoFault
           /\ calls' = Logged(e, <<Call("report", "reply", None, 0, e, room_id,
                                        task[p].content)>>)
           /\ IF Truthy(config.notification_room)
              THEN /\ task' = [task EXCEPT ![p].pc = "send_message",
                                           ![p].content = NotifyContent(task[p])]
                   /\ UNCHANGED outcome
              ELSE Finish(p, "returned")
        \/ /\ Failed(e, "report_reply")
           /\ Finish(p, "raised")
           /\ UNCHANGED calls
  /\ UNCHANGED <<config, events, repeats, store, power, matchLog>>

\* line 135 returns, then lines 137-143
Notify(p) ==
  /\ task[p].pc = "send_message"
  /\ LET e == task[p].evt
     IN \/ /\ NoFault
           /\ calls' = Logged(e, <<Call("report", "send_message", None, 0, 0,
                                        config.notification_room, task[p].content)>>)
           /\ task' = [task EXCEPT ![p].pc = "send_quote",
                ![p].content = QuoteContent(events[task[p].reported_msg].body)]
           /\ UNCHANGED outcome
        \/ /\ Failed(e, "send_message")
           /\ Finish(p, "raised")
           /\ UNCHANGED calls
  /\ UNCHANGED <<config, events, repeats, store, power, matchLog>>

\* line 143 returns, and report with it
NotifyQuote(p) ==
  /\ task[p].pc = "send_quote"
  /\ LET e == task[p].evt
     IN \/ /\ NoFault
           /\ calls' = Logged(e, <<Call("report", "send_message", None, 0, 0,
                                        config.notification_room, task[p].content)>>)
           /\ Finish(p, "returned")
        \/ /\ Failed(e, "send_quote")
           /\ Finish(p, "raised")
           /\ UNCHANGED calls
  /\ UNCHANGED <<config, events, repeats, store, power, matchLog>>

\* --------------------------------------------------------- specifications
Step(p) ==
  \/ GetWarningCount(p)
  \/ SetWarningCount(p)
  \/ Reply(p)
  \/ GetStateEvent(p)
  \/ SendStateEvent(p)
  \/ MuteReply(p)
  \/ GetEvent(p)
  \/ ReportReply(p)
  \/ Notify(p)
  \/ NotifyQuote(p)

Dispatch(p) ==
  \E e \in 1..Len(events) : EventHandlerStart(p, e) \/ ReportStart(p, e)

\* handlers run as concurrent tasks and interleave at their awaits
Next ==
  \/ Post
  \/ \E p \in Procs : Dispatch(p) \/ Step(p)

Spec == Init /\ [][Next]_vars

Quiet ==
  /\ \A p \in Procs : task[p].pc = "idle"
  /\ \A e \in 1..Len(events) :
       \A h \in {"event_handler", "report"} : outcome[e][h] # "pending"

\* race-free runs: an event arrives only when every handler has finished,
\* and its handlers run one after the other
NextSerial ==
  \/ Quiet /\ Post
  \/ Quiet /\ Repeat
  \/ \E p \in Procs :
       \/ (\A q \in Procs : task[q].pc = "idle") /\ Dispatch(p)
       \/ Step(p)

SpecSerial == Init /\ [][NextSerial]_vars

\* ------------------------------------------------------- observations
Evts == 1..Len(events)

\* the calls handler h made with operation op while handling event e
CallsOf(e, h, op) == SelectSeq(calls[e], LAMBDA c : c.h = h /\ c.op = op)

\* the calls of operation op made while handling event e, by either handler
CallsOp(e, op) == SelectSeq(calls[e], LAMBDA c : c.op = op)

Done(e, h) == outcome[e][h] \in {"none", "returned", "raised"}

\* the value stored for the exact id u, 0 without a row
StoredCount(u) == IF u \in DOMAIN store THEN store[u] ELSE 0

\* no id that differs from u only in letter case has matched a keyword
SoleCasing(u) ==
  \A v \in Senders \ {u} : LowerSym(v) = LowerSym(u) => matchLog[v] = << >>

\* each message of u matched one keyword
OneMatchPerMessage(u) ==
  \A k, l \in 1..Len(matchLog[u]) :
    k # l => matchLog[u][k].evt # matchLog[u][l].evt

IsReportCommand(e) ==
  /\ events[e].type = ROOM_MESSAGE
  /\ events[e].body = <<ReportCommand>>

\* ---------------------------------------------------------------- claims
\* the number of times event_handler called mute while handling event e
MuteCalls(e) == Len(CallsOf(e, "event_handler", "mute"))

\* C1: in a race-free run in which no call failed, for a user whose messages
\* each match one keyword, mute is called on the k-th match exactly when k is a
\* multiple of 3.
C1_MuteEveryThird ==
  \A u \in Senders :
    (faults = 0 /\ SoleCasing(u) /\ OneMatchPerMessage(u)) =>
      \A k \in 1..Len(matchLog[u]) :
        MuteCalls(matchLog[u][k].evt) = (IF k % 3 = 0 THEN 1 ELSE 0)

\* a user has matched six times, and was muted on the third and sixth match only
C1_Witness ==
  \E u \in Senders :
    /\ Quiet /\ faults = 0 /\ SoleCasing(u) /\ OneMatchPerMessage(u)
    /\ Len(matchLog[u]) = 6
    /\ {k \in 1..6 : MuteCalls(matchLog[u][k].evt) = 1} = {3, 6}

\* C2, as stated: after N race-free matches without a failed call the stored
\* count of the user is N.
C2_StoredEqualsMatches ==
  \A u \in Senders :
    (Quiet /\ faults = 0 /\ SoleCasing(u)) => StoredCount(u) = Len(matchLog[u])

\* C2, amended: after N race-free matches without a failed call the stored
\* count is 0 for N = 0 and ((N - 1) mod 3) + 1 otherwise: a match stores
\* (stored count mod 3) + 1.
C2_StoredCycles ==
  \A u \in Senders :
    (Quiet /\ faults = 0 /\ SoleCasing(u)) =>
      StoredCount(u) = (IF Len(matchLog[u]) = 0 THEN 0
                        ELSE ((Len(matchLog[u]) - 1) % 3) + 1)

\* after four matches the stored count is 1
C2_Witness ==
  \E u \in Senders :
    /\ Quiet /\ faults = 0 /\ SoleCasing(u)
    /\ Len(matchLog[u]) = 4
    /\ StoredCount(u) = 1

\* C3, as stated: no step lowers the stored count of a user.
C3_NeverDecreases ==
  [][\A u \in Senders : StoredCount(u)' >= StoredCount(u)]_vars

\* C3, amended: in a race-free run a step leaves the stored count of a user
\* (whose id has no differently-cased variant) unchanged, raises it by 1, or
\* takes it from 3 back to 1; and only event_handler writes the store.
C3_StepOrWrap ==
  [][/\ \A u \in Senders :
          SoleCasing(u)' =>
            \/ StoredCount(u)' = StoredCount(u)
            \/ StoredCount(u)' = StoredCount(u) + 1
            \/ StoredCount(u) = 3 /\ StoredCount(u)' = 1
     /\ store' # store =>
          \E p \in Procs : task[p].handler = "event_handler"
                           /\ task[p].pc = "set_warning_count"]_vars

\* the write after a stored 3 has taken the count back to 1
C3_Witness ==
  \E u \in Senders : \E e \in Evts :
    LET w == CallsOf(e, "event_handler", "set_warning_count")
        r == CallsOf(e, "event_handler", "get_warning_count")
    IN /\ SoleCasing(u) /\ events[e].sender = u
       /\ Len(r) = 1 /\ r[1].n = 3
       /\ Len(w) = 1 /\ w[1].n = 1
       /\ StoredCount(u) = 1

\* C4, as stated: when the power-levels update of a keyword-triggered mute is
\* refused with MForbidden, event_handler still returns normally, the count
\* of that match is stored and a reply is sent.
C4_ForbiddenRecovered ==
  \A e \in Evts :
    (/\ "MForbidden" \in failures[e]
     /\ MuteCalls(e) > 0
     /\ Done(e, "event_handler")) =>
      /\ outcome[e]["event_handler"] = "returned"
      /\ Len(CallsOf(e, "event_handler", "set_warning_count"))
           = Len(CallsOf(e, "event_handler", "get_warning_count"))
      /\ Len(CallsOf(e, "event_handler", "reply")) > 0

\* C5, as stated: once a reaction with the report emoji on an existing message
\* has been handled, without a failed call, the sender of that message was
\* muted and the report reply was sent.
C5_ReactionReports ==
  \A e \in Evts :
    (/\ events[e].type = REACTION
     /\ events[e].key = ReportEmoji
     /\ events[e].reply_to \in Evts
     /\ faults = 0
     /\ Quiet) =>
      /\ \E i \in 1..Len(CallsOp(e, "mute")) :
           CallsOp(e, "mute")[i].user = events[events[e].reply_to].sender
      /\ Len(CallsOp(e, "reply")) > 0

\* C6: a report command that replies to a message, handled without a failed
\* call, calls mute once, for the sender of that message, whose level the one
\* power-levels update sets to -1, and its command gets one reply,
\* message_report with the links of the reported user and of the reporter in
\* its formatted body.
C6_ReportMutesTarget ==
  \A e \in Evts :
    (/\ IsReportCommand(e)
     /\ events[e].reply_to # 0
     /\ failures[e] = {}
     /\ outcome[e]["report"] = "returned"
     /\ Done(e, "event_handler")) =>
      LET target == events[events[e].reply_to]
          mutes == CallsOp(e, "mute")
          updates == CallsOp(e, "send_state_event")
          replies == CallsOp(e, "reply")
      IN /\ Len(mutes) = 1
         /\ mutes[1].user = target.sender
         /\ mutes[1].to = events[e].reply_to
         /\ Len(updates) = 1
         /\ updates[1].user = target.sender
         /\ updates[1].n = -1
         /\ Len(replies) = 1
         /\ replies[1].to = e
         /\ replies[1].content.formatted_body =
              Link(target.sender) \o <<"was", "reported", "by">>
                \o Link(events[e].sender)

\* a report by somebody else than the reported sender has returned
C6_Witness ==
  \E e \in Evts :
    /\ IsReportCommand(e)
    /\ events[e].reply_to # 0
    /\ failures[e] = {}
    /\ outcome[e]["report"] = "returned"
    /\ Done(e, "event_handler")
    /\ events[events[e].reply_to].sender # events[e].sender
    /\ Len(CallsOp(e, "mute")) = 1

\* the calls of report for event e that mute, reply or send
ReportEffects(e) ==
  SelectSeq(calls[e],
            LAMBDA c : c.h = "report"
                       /\ c.op \in {"mute", "send_state_event", "reply",
                                    "send_message"})

\* C7: without a notification room (unset or empty) nothing is ever sent to a
\* room, and a report handled without a failed call mutes the reported user
\* and replies; with a notification room it mutes, replies, and then sends
\* two messages to that room: message_notify, then the quote of the reported
\* body.
C7_NotificationRoom ==
  /\ config.notification_room \in {None, ""} =>
       \A e \in Evts : CallsOp(e, "send_message") = << >>
  /\ \A e \in Evts :
       (/\ IsReportCommand(e)
        /\ events[e].reply_to # 0
        /\ failures[e] = {}
        /\ outcome[e]["report"] = "returned") =>
         LET eff == ReportEffects(e)
             target == events[events[e].reply_to]
         IN IF config.notification_room \in {None, ""}
            THEN /\ [i \in 1..Len(eff) |-> eff[i].op]
                      = <<"mute", "send_state_event", "reply">>
                 /\ eff[2].user = target.sender
                 /\ eff[3].to = e
            ELSE /\ [i \in 1..Len(eff) |-> eff[i].op]
                      = <<"mute", "send_state_event", "reply", "send_message",
                          "send_message">>
                 /\ eff[2].user = target.sender
                 /\ eff[3].to = e
                 /\ eff[4].room = config.notification_room
                 /\ eff[4].content.formatted_body =
                      Link(events[e].sender) \o <<"reported">>
                        \o Link(target.sender) \o <<"in", room_id>>
                 /\ eff[5].room = config.notification_room
                 /\ eff[5].content.body = <<"> ">> \o target.body

\* a report has returned after its two messages to the notification room
C7_Witness ==
  \E e \in Evts :
    /\ IsReportCommand(e)
    /\ failures[e] = {}
    /\ outcome[e]["report"] = "returned"
    /\ config.notification_room = "!mods"
    /\ Len(CallsOf(e, "report", "send_message")) = 2

\* a report has returned with no notification room configured
C7_WitnessUnset ==
  \E e \in Evts :
    /\ IsReportCommand(e)
    /\ failures[e] = {}
    /\ outcome[e]["report"] = "returned"
    /\ config.notification_room \in {None, ""}
    /\ Len(CallsOf(e, "report", "reply")) = 1

\* C8, as stated: when the power-levels update fails during a report, the
\* command of the reporter gets a reply that tells of the failure.
C8_MuteFailureSurfaces ==
  \A e \in Evts :
    (/\ IsReportCommand(e)
     /\ failures[e] \cap StateEventErrors # {}
     /\ outcome[e]["report"] \in {"returned", "raised"}) =>
      \E i \in 1..Len(calls[e]) :
        /\ calls[e][i].op = "reply"
        /\ calls[e][i].to = e
        /\ calls[e][i].content.body = FailedToUpdate

NotifyFailures == {"send_message", "send_quote"}

\* a notification-room send was made or tried while handling event e
NotifyAttempted(e) ==
  \/ CallsOf(e, "report", "send_message") # << >>
  \/ failures[e] \cap NotifyFailures # {}

\* the reply of report to the command e was sent
ReportReplied(e) ==
  \E i \in 1..Len(calls[e]) :
    /\ calls[e][i].h = "report"
    /\ calls[e][i].op = "reply"
    /\ calls[e][i].to = e
    /\ calls[e][i].content.body # FailedToUpdate

\* C9, as stated: with a notification room, a failed notification send never
\* undoes or prevents the reply to the reporter, and after a failed reply to
\* the reporter the notification is still attempted.
C9_Independent ==
  \A e \in Evts :
    (IsReportCommand(e) /\ config.notification_room = "!mods") =>
      /\ failures[e] \cap NotifyFailures # {} => ReportReplied(e)
      /\ ("report_reply" \in failures[e] /\ Done(e, "report")) => NotifyAttempted(e)

\* C9, amended: with a notification room, a failed notification send never
\* prevents the reply to the reporter, which was sent before; but a failed
\* reply to the reporter ends report with the exception, and no notification
\* is attempted.
C9_ReplyThenNotify ==
  \A e \in Evts :
    (IsReportCommand(e) /\ config.notification_room = "!mods") =>
      /\ NotifyAttempted(e) => ReportReplied(e)
      /\ "report_reply" \in failures[e] =>
           /\ outcome[e]["report"] = "raised"
           /\ ~NotifyAttempted(e)
           /\ ~ReportReplied(e)

\* the quote failed to send after the reply and the alert had been sent
C9_Witness ==
  \E e \in Evts :
    /\ IsReportCommand(e)
    /\ "send_quote" \in failures[e]
    /\ outcome[e]["report"] = "raised"
    /\ ReportReplied(e)
    /\ Len(CallsOf(e, "report", "send_message")) = 1

\* the reply to the reporter failed, and report ended there
C9_WitnessReplyFailed ==
  \E e \in Evts :
    /\ IsReportCommand(e)
    /\ config.notification_room = "!mods"
    /\ "report_reply" \in failures[e]
    /\ outcome[e]["report"] = "raised"

\* the body contains a configured keyword, ignoring case
MentionsKeyword(body) ==
  \E k \in 1..Len(config.keywords) :
    LET kw == config.keywords[k]
    IN \E i \in 0..(Len(body) - Len(kw)) :
         \A j \in 1..Len(kw) : LowerSym(body[i + j]) = LowerSym(kw[j])

\* a text or emote message of somebody else than the bot without a keyword
PlainMessage(e) ==
  /\ events[e].type = ROOM_MESSAGE
  /\ events[e].msgtype \in {TEXT, EMOTE}
  /\ events[e].sender # mxid
  /\ ~MentionsKeyword(events[e].body)

\* C10: for a text or emote message of a non-bot user that contains no
\* configured keyword, event_handler reads and writes no count, calls no mute
\* and sends no reply; it returns at once.
C10_NoKeywordNoEffect ==
  \A e \in Evts :
    PlainMessage(e) =>
      /\ \A i \in 1..Len(calls[e]) : calls[e][i].h # "event_handler"
      /\ outcome[e]["event_handler"] \in {"pending", "returned"}

\* event_handler has returned for such a message, with keywords configured
C10_Witness ==
  \E e \in Evts :
    /\ PlainMessage(e)
    /\ config.keywords # << >>
    /\ ~IsReportCommand(e)
    /\ outcome[e]["event_handler"] = "returned"
    /\ DOMAIN store = {}

\* event_handler has returned for a message with no keywords configured
C10_WitnessNoKeywords ==
  \E e \in Evts :
    /\ PlainMessage(e)
    /\ config.keywords = << >>
    /\ events[e].body = body_SPam
    /\ outcome[e]["event_handler"] = "returned"

\* a room message of the bot itself, or of a kind other than text and emote
BotOrOtherKind(e) ==
  /\ events[e].type = ROOM_MESSAGE
  /\ (events[e].sender = "@bot" \/ events[e].msgtype \notin {"m.text", "m.emote"})

\* C11: for a message of the bot itself, or of a kind other than text and
\* emote, event_handler reads and writes no count, calls no mute and sends no
\* reply, whatever its body; it returns at once.
C11_IgnoredNotEvaluated ==
  \A e \in Evts :
    BotOrOtherKind(e) =>
      /\ \A i \in 1..Len(calls[e]) : calls[e][i].h # "event_handler"
      /\ outcome[e]["event_handler"] \in {"pending", "returned"}
      /\ \A u \in Senders : \A k \in 1..Len(matchLog[u]) : matchLog[u][k].evt # e

\* a message of the bot and a notice of a user, both with a keyword in the
\* body, have been handled and the store is still empty
C11_Witness ==
  \E e, f \in Evts :
    /\ events[e].sender = mxid /\ events[e].msgtype = TEXT
    /\ events[f].sender # mxid /\ events[f].msgtype = NOTICE
    /\ MentionsKeyword(events[e].body) /\ MentionsKeyword(events[f].body)
    /\ outcome[e]["event_handler"] = "returned"
    /\ outcome[f]["event_handler"] = "returned"
    /\ DOMAIN store = {}

\* C12, as stated: no two stored records have ids that are equal ignoring
\* case, and a read for any casing of an id has one possible result.
C12_OneRecordPerIdentity ==
  /\ \A u, v \in DOMAIN store : LowerSym(u) = LowerSym(v) => u = v
  /\ \A u \in Senders : Cardinality(get_warning_count(u)) = 1

\* the last element of a non-empty sequence
Last(s) == s[Len(s)]

\* the reads of the count event_handler made while handling event e
Reads(e) == CallsOf(e, "event_handler", "get_warning_count")

\* C13: nothing orders the matches of different events. A match calls mute
\* exactly when the count it read itself is 2 modulo 3, and it stores (the
\* count it read modulo 3) + 1 over whatever has been written since its read;
\* so two handlers for one user that both read before either writes lose an
\* update and break the every-third-match schedule (the witness).
C13_WritesWhatItRead ==
  [][\A e \in Evts :
       (calls'[e] # calls[e] /\ Last(calls'[e]).h = "event_handler") =>
         LET c == Last(calls'[e])
             r == Last(CallsOf(e, "event_handler", "get_warning_count")')
         IN /\ c.op = "mute" => r.n % 3 = 2
            /\ c.op = "get_warning_count" => c.n % 3 # 2
            /\ c.op = "set_warning_count" =>
                 /\ c.n = (r.n % 3) + 1
                 /\ store' = [u \in DOMAIN store \cup {c.user} |->
                                IF u = c.user THEN c.n ELSE store[u]]]_vars

\* two messages of one user were handled concurrently without a failed call:
\* four matches, but the stored count is 3, the third match called no mute and
\* the fourth did
C13_Witness ==
  \E u \in Senders :
    /\ Quiet /\ faults = 0 /\ SoleCasing(u)
    /\ Len(matchLog[u]) = 4
    /\ \E e, f \in Evts : e # f /\ Len(Reads(e)) = 3 /\ Len(Reads(f)) = 1
                          /\ Reads(e)[1].n = 0 /\ Reads(f)[1].n = 0
    /\ ~matchLog[u][3].mute
    /\ matchLog[u][4].mute
    /\ StoredCount(u) = 3

\* two matches of one user have completed and the stored count is 1
C13_WitnessLostUpdate ==
  \E u \in Senders :
    /\ Quiet /\ faults = 0 /\ SoleCasing(u)
    /\ Len(matchLog[u]) = 2
    /\ StoredCount(u) = 1

\* the third and the fourth match of a user both called mute
C13_WitnessTwoMutes ==
  \E u \in Senders :
    /\ Quiet /\ faults = 0 /\ SoleCasing(u)
    /\ Len(matchLog[u]) = 4
    /\ matchLog[u][3].mute
    /\ matchLog[u][4].mute

\* the power-levels updates made while handling event e
Updates(e) == CallsOp(e, "send_state_event")

\* C14: mute writes back the whole map it read. The step that performs the
\* power-levels update of a task replaces the room's map by the task's own
\* copy, read earlier, with the muted user at -1: entries written by others
\* since that read are gone, so that a user muted by one handler can end up
\* not muted when both have finished (the witness).
C14_WholeMapWritten ==
  [][\A e \in Evts :
       (calls'[e] # calls[e] /\ Last(calls'[e]).op = "send_state_event") =>
         \E p \in Procs :
           /\ task[p].evt = e
           /\ task[p].pc = "send_state_event"
           /\ Last(calls'[e]).user \in DOMAIN task[p].levels
           /\ power' = [u \in DOMAIN task[p].levels |->
                          IF u = Last(calls'[e]).user THEN -1
                          ELSE task[p].levels[u]]]_vars

\* two handlers have muted two different users without a failed call, both
\* have finished, and the user muted first is not muted
C14_Witness ==
  \E e, f \in Evts :
    /\ Quiet /\ faults = 0
    /\ Len(Updates(e)) = 1 /\ Len(Updates(f)) = 1
    /\ Updates(e)[1].user # Updates(f)[1].user
    /\ Updates(e)[1].user \notin DOMAIN power
    /\ power[Updates(f)[1].user] = -1

\* C15: a report command that replies to no message looks up no event, mutes
\* nobody, sends no reply and nothing to the notification room, and report
\* returns without an error.
C15_NoTargetNoEffect ==
  \A e \in Evts :
    (IsReportCommand(e) /\ events[e].reply_to = 0) =>
      /\ \A i \in 1..Len(calls[e]) :
           calls[e][i].op \notin {"get_event", "mute", "get_state_event",
                                  "send_state_event", "reply", "send_message"}
      /\ failures[e] = {}
      /\ outcome[e]["report"] \in {"pending", "returned"}
      /\ outcome[e]["event_handler"] \in {"pending", "returned"}

\* such a command has been handled, in a room with an earlier message and
\* with a notification room configured; nothing was written or muted
C15_Witness ==
  \E e \in Evts :
    /\ IsReportCommand(e) /\ events[e].reply_to = 0
    /\ e > 1
    /\ config.notification_room = "!mods"
    /\ outcome[e]["report"] = "returned"
    /\ outcome[e]["event_handler"] = "returned"
    /\ calls[e] = << >>
    /\ DOMAIN power = {mxid}

\* the writes of the count and the replies event_handler made for event e
Writes(e) == CallsOf(e, "event_handler", "set_warning_count")

MatchReplies(e) ==
  SelectSeq(calls[e], LAMBDA c : c.h = "event_handler" /\ c.op = "reply"
                                  /\ c.content.body # FailedToUpdate)

\* the position in calls[e] of the i-th call of operation op by event_handler
Pos(e, op, i) ==
  SelectSeq([j \in 1..Len(calls[e]) |-> j],
            LAMBDA j : calls[e][j].h = "event_handler" /\ calls[e][j].op = op)[i]

\* the i-th match of event e called mute: a mute call lies between its read
\* and its write
MutedAt(e, i) ==
  LET read == Pos(e, "get_warning_count", i)
      write == Pos(e, "set_warning_count", i)
  IN \E j \in (read + 1)..(write - 1) :
       calls[e][j].h = "event_handler" /\ calls[e][j].op = "mute"

\* the configured keywords the body contains, in configured order
MatchedKeywords(body) ==
  SelectSeq(config.keywords,
            LAMBDA kw : \E i \in 0..(Len(body) - Len(kw)) :
                          \A j \in 1..Len(kw) :
                            LowerSym(body[i + j]) = LowerSym(kw[j]))

\* the two reply texts for user u, count n and keyword kw
WarningText(u, n, kw) ==
  [body |-> <<"[user]", "warning", ToString(n), "for">> \o kw,
   formatted_body |-> Link(u) \o <<"warning", ToString(n), "for">> \o kw]

MuteText(u, n, kw) ==
  [body |-> <<"[user]", "muted", "after", ToString(n), "for">> \o kw,
   formatted_body |-> Link(u) \o <<"muted", "after", ToString(n), "for">> \o kw]

\* C16: in a race-free run the reply to a match is message_mute exactly when
\* that match called mute, message_warning otherwise, and the count it shows
\* is the incremented count that match stored; when no call failed, the k-th
\* match of a user stores and shows ((k - 1) mod 3) + 1 and calls mute exactly
\* when k is a multiple of 3: the warning with 1 and 2 for k = 1 and 2, the
\* mute text with 3 for k = 3. Checked of every reply in the step that sends
\* it, when the match it answers is the sender's latest.
C16_ReplyTemplateAndCount ==
  [][\A e \in Evts :
       (/\ calls'[e] # calls[e]
        /\ Last(calls'[e]).h = "event_handler"
        /\ Last(calls'[e]).op = "reply"
        /\ Last(calls'[e]).content.body # FailedToUpdate) =>
         LET reply == Last(calls'[e])
             u == events[e].sender
             k == Len(matchLog[u])
             i == Len(Writes(e))
             n == Writes(e)[i].n
             kw == MatchedKeywords(events[e].body)[i]
             muted == MutedAt(e, i)
         IN /\ reply.to = e
            /\ i = Len(MatchReplies(e)) + 1
            /\ reply.content = (IF muted THEN MuteText(u, n, kw)
                                ELSE WarningText(u, n, kw))
            /\ (faults = 0 /\ SoleCasing(u)) =>
                 /\ matchLog[u][k].evt = e
                 /\ n = ((k - 1) % 3) + 1
                 /\ muted <=> (k % 3 = 0)]_vars

\* @bob has sent "sp" four times: the replies are the warning with 1 and 2,
\* the mute text with 3, and the warning with 1 again
C16_Witness ==
  /\ Quiet /\ faults = 0
  /\ Len(events) = 4
  /\ \A e \in Evts : events[e].sender = "@bob" /\ Len(MatchReplies(e)) = 1
  /\ [e \in Evts |-> MatchReplies(e)[1].content.body] =
       << <<"[user]", "warning", "1", "for", "s", "p">>,
          <<"[user]", "warning", "2", "for", "s", "p">>,
          <<"[user]", "muted", "after", "3", "for", "s", "p">>,
          <<"[user]", "warning", "1", "for", "s", "p">> >>
  /\ MuteCalls(3) = 1 /\ MuteCalls(1) + MuteCalls(2) + MuteCalls(4) = 0

\* the last n elements of s
Suffix(s, n) == SubSeq(s, Len(s) - n + 1, Len(s))

\* a text or emote message of somebody else than the bot that event_handler
\* has handled to its end without a failed call
Evaluated(e) ==
  /\ events[e].type = ROOM_MESSAGE
  /\ events[e].msgtype \in {TEXT, EMOTE}
  /\ events[e].sender # mxid
  /\ outcome[e]["event_handler"] = "returned"
  /\ failures[e] = {}

\* C17: in a race-free run, a message that contains k of the configured
\* keywords gets k reads, k writes of the count and k replies, the i-th reply
\* naming the i-th of these keywords in configured order; each match reads the
\* count the previous match of the message stored, so a message with three
\* keywords from a user without a record gets warning, warning, mute.
C17_PerKeyword ==
  \A e \in Evts :
    Evaluated(e) =>
      LET kws == MatchedKeywords(events[e].body)
          k == Len(kws)
          replies == MatchReplies(e)
      IN /\ Len(Reads(e)) = k
         /\ Len(Writes(e)) = k
         /\ Len(replies) = k
         /\ \A i \in 1..k :
              /\ Suffix(replies[i].content.body, Len(kws[i])) = kws[i]
              /\ (i > 1 /\ SoleCasing(events[e].sender))
                   => Reads(e)[i].n = Writes(e)[i - 1].n
         /\ (k = 3 /\ Reads(e)[1].n = 0 /\ SoleCasing(events[e].sender)) =>
              /\ [i \in 1..3 |-> Writes(e)[i].n] = <<1, 2, 3>>
              /\ [i \in 1..3 |-> MutedAt(e, i)] = <<FALSE, FALSE, TRUE>>

\* the first message of @bob holds the three keywords: its replies are the
\* warning for sp, the warning for AM and the mute text for pa
C17_Witness ==
  \E e \in Evts :
    /\ Evaluated(e)
    /\ events[e].sender = "@bob" /\ events[e].body = <<"S", "P", "a", "m">>
    /\ Len(matchLog["@bob"]) = 3 /\ Len(matchLog["@Bob"]) = 0
    /\ [i \in 1..3 |-> MatchReplies(e)[i].content.body] =
         << <<"[user]", "warning", "1", "for", "s", "p">>,
            <<"[user]", "warning", "2", "for", "A", "M">>,
            <<"[user]", "muted", "after", "3", "for", "p", "a">> >>
    /\ StoredCount("@bob") = 3
    /\ power["@bob"] = -1

\* the position in calls[e] of the first mute call of event_handler
MutePos(e) == Pos(e, "mute", 1)

\* C18: when the power-levels update of the one keyword-triggered mute of a
\* message fails with a request error other than MForbidden, and no other
\* call fails, the next calls of event_handler are
\* the failure reply to the triggering event, the write of the incremented
\* count and the message_mute reply with that count; no update was made, and
\* the handler returns.
C18_RequestErrorContinues ==
  \A e \in Evts :
    (MuteCalls(e) = 1 /\ failures[e] = {"MatrixRequestError"}) =>
      LET j == MutePos(e)
          read == calls[e][j - 1]
          after == SubSeq(calls[e], j + 1, Len(calls[e]))
          u == events[e].sender
      IN /\ read.op = "get_warning_count"
         /\ Updates(e) = << >>
         /\ Len(after) >= 1 =>
              /\ after[1].op = "reply"
              /\ after[1].to = e
              /\ after[1].content.body = FailedToUpdate
         /\ Len(after) >= 2 =>
              /\ after[2].op = "set_warning_count"
              /\ after[2].user = u
              /\ after[2].n = (read.n % 3) + 1
         /\ Len(after) >= 3 =>
              /\ after[3].op = "reply"
              /\ after[3].to = e
              /\ SubSeq(after[3].content.body, 1, 4)
                   = <<"[user]", "muted", "after", ToString(after[2].n)>>
         /\ outcome[e]["event_handler"] # "raised"
         /\ outcome[e]["event_handler"] = "returned" => Len(after) >= 3

\* the update for the third match of @bob failed with a request error:
\* event_handler has returned after the failure reply, the count is 3 and
\* @bob is not muted
C18_Witness ==
  \E e \in Evts :
    /\ events[e].sender = "@bob"
    /\ failures[e] = {"MatrixRequestError"}
    /\ MuteCalls(e) = 1
    /\ outcome[e]["event_handler"] = "returned"
    /\ Len(matchLog["@bob"]) = 3 /\ Len(matchLog["@Bob"]) = 0
    /\ StoredCount("@bob") = 3
    /\ "@bob" \notin DOMAIN power
    /\ Last(calls[e]).content.body
         = <<"[user]", "muted", "after", "3", "for", "p", "a">>

\* the steps event_handler made for event e, in order; the reply that tells of
\* a failed update is named apart from the reply to a match
StepsOf(e) ==
  LET cs == SelectSeq(calls[e], LAMBDA c : c.h = "event_handler")
  IN [j \in 1..Len(cs) |->
        IF cs[j].op = "reply" /\ cs[j].content.body = FailedToUpdate
        THEN "failure_reply" ELSE cs[j].op]

\* the steps that may follow a step within event_handler
FollowedBy(op) ==
  CASE op = "get_warning_count" -> {"mute", "set_warning_count"}
    [] op = "mute" -> {"send_state_event", "failure_reply"}
    [] op = "send_state_event" -> {"set_warning_count"}
    [] op = "failure_reply" -> {"set_warning_count"}
    [] op = "set_warning_count" -> {"reply"}
    [] op = "reply" -> {"get_warning_count"}

\* within a match the steps are: read, mute if due, write, reply
C19_Order ==
  \A e \in Evts :
    LET ops == StepsOf(e)
    IN /\ ops # << >> => ops[1] = "get_warning_count"
       /\ \A j \in 1..(Len(ops) - 1) : ops[j + 1] \in FollowedBy(ops[j])

\* the match of user u after one whose mute raised calls mute again
C19_MuteAgain ==
  \A u \in Senders :
    SoleCasing(u) =>
      \A k \in 1..(Len(matchLog[u]) - 1) :
        LET e == matchLog[u][k].evt
        IN (/\ matchLog[u][k + 1].evt # e
            /\ "MForbidden" \in failures[e]
            /\ outcome[e]["event_handler"] = "raised") =>
             /\ matchLog[u][k].mute
             /\ matchLog[u][k + 1].mute

\* a failed reply and a mute that raises end the handler and leave the store
\* as it is: with the count of the match written in the first case, without
\* it in the second
C19_NoRollback ==
  \A e \in Evts :
    /\ ("reply" \in failures'[e] /\ "reply" \notin failures[e]) =>
         /\ store' = store
         /\ outcome'[e]["event_handler"] = "raised"
         /\ Last(StepsOf(e)) = "set_warning_count"
         /\ StoredCount(events[e].sender) = Last(Writes(e)).n
         /\ Last(Writes(e)).n = (Last(Reads(e)).n % 3) + 1
    /\ ("MForbidden" \in failures'[e] /\ "MForbidden" \notin failures[e]
        /\ MuteCalls(e) > 0) =>
         /\ store' = store
         /\ outcome'[e]["event_handler"] = "raised"
         /\ Last(StepsOf(e)) = "mute"
         /\ Len(Writes(e)) = Len(Reads(e)) - 1
         /\ SoleCasing(events[e].sender) =>
              StoredCount(events[e].sender) = Last(Reads(e)).n

\* C19: in a race-free run the steps of a match are read, mute if due, write,
\* reply, in this order; a reply that fails leaves the incremented count in
\* the store; a mute that raises leaves the count as it was read, and the
\* next match of that user calls mute again.
C19_OrderAndNoRollback ==
  [](C19_Order /\ C19_MuteAgain) /\ [][C19_NoRollback]_vars

\* the mute of the third match of @bob raised, the count stayed 2, and the
\* fourth match has called mute again and stored 3
C19_Witness ==
  /\ Quiet
  /\ Len(events) = 4
  /\ \A e \in Evts : events[e].sender = "@bob"
  /\ failures[3] = {"MForbidden"}
  /\ outcome[3]["event_handler"] = "raised"
  /\ Writes(3) = << >>
  /\ Reads(4)[1].n = 2
  /\ MuteCalls(4) = 1
  /\ StoredCount("@bob") = 3

\* the reply to the second match of a user failed to send, and the count is 2
C19_WitnessReplyFailed ==
  \E e \in Evts :
    /\ Quiet
    /\ "reply" \in failures[e]
    /\ outcome[e]["event_handler"] = "raised"
    /\ Len(matchLog[events[e].sender]) = 2
    /\ SoleCasing(events[e].sender)
    /\ StoredCount(events[e].sender) = 2

\* C20: starting from an empty store, however the handlers interleave, every
\* stored count is 1, 2 or 3: every write of a match stores (the count that
\* match read modulo 3) + 1, and nothing else writes the store.
C20_StoredInRange ==
  /\ \A u \in DOMAIN store : store[u] \in {1, 2, 3}
  /\ \A e \in Evts :
       /\ Len(Writes(e)) <= Len(Reads(e))
       /\ \A i \in 1..Len(Writes(e)) :
            /\ Writes(e)[i].n = (Reads(e)[i].n % 3) + 1
            /\ Writes(e)[i].user \in DOMAIN store
       /\ \A i \in 1..Len(Reads(e)) : Reads(e)[i].n \in {0, 1, 2, 3}
  /\ \A u \in DOMAIN store :
       \E e \in Evts : events[e].sender = u /\ Writes(e) # << >>

\* the second message of a user read the count 3 that the three matches of the
\* first had left and stored 1
C20_Witness ==
  \E u \in Senders :
    /\ Len(events) = 2
    /\ events[1].sender = u /\ events[2].sender = u
    /\ Len(Writes(1)) = 3 /\ Writes(1)[3].n = 3
    /\ Len(Writes(2)) = 1 /\ Reads(2)[1].n = 3 /\ Writes(2)[1].n = 1
    /\ store[u] = 1

====
